---- MODULE Spec2Model ----
(***************************************************************************)
(* Model of workerpool.go: a pool of maxWorkersCount worker goroutines     *)
(* that drain the buffered channel p.task, an error slot p.errChan of      *)
(* capacity 1, the atomic flag p.closed, the sync.Once p.start, the        *)
(* WaitGroup p.wg and the per-task timeout watchdog goroutines.            *)
(*                                                                         *)
(* Every goroutine is a process with a program counter; one action is one  *)
(* step between two synchronisation points (channel operation, atomic      *)
(* load/store, WaitGroup operation).                                       *)
(***************************************************************************)
EXTENDS Integers, Sequences, FiniteSets, TLC

\* ---- bounds -------------------------------------------------------------
MaxArg == 2         \* New is called with max in 0..MaxArg
NumCallers == 2     \* goroutines calling Do / DoWait
MaxTasks == 2       \* calls of Do / DoWait made in one run

Callers == 1..NumCallers
\* the one-worker specification admits one call more
MaxTasksSerial == MaxTasks + 1
Tasks == 1..MaxTasksSerial
Workers == 1..(MaxArg + 1)

\* ---- values -------------------------------------------------------------
NoErr == 0                          \* the nil error
TaskErr(t) == t                     \* the error value task t returns
DeadlineExceeded == MaxTasksSerial + 1  \* ct.Err() of an expired context

\* A TaskHandler is nil, returns nil, or returns its own error value.
Fns == {"nilfn", "ok", "err"}
Kinds == {"Do", "DoWait"}

VARIABLES
    maxWorkersCount,  \* p.maxWorkersCount
    timeout,          \* p.timeout
    queue,            \* p.task: buffered task ids, oldest first
    chanClosed,       \* p.task has been closed
    errChan,          \* p.errChan: sequence of length <= 1
    closed,           \* p.closed (0 or 1)
    started,          \* p.start has run
    launches,         \* number of times the function given to p.start ran
    wg,               \* counter of p.wg
    loopI,            \* i of the goroutine running loop(); -1: not spawned
    nTasks,           \* number of Do / DoWait calls begun
    kind,             \* kind[t]: "Do", "DoWait", or "none" (not yet called)
    fn,               \* fn[t]: the TaskHandler passed by call t
    owner,            \* owner[t]: the caller that made call t (0: none)
    cpc,              \* cpc[c]: position of caller c
    ctask,            \* ctask[c]: the call caller c is in
    wpc,              \* wpc[w]: position of worker w
    wtask,            \* wtask[w]: wt of worker w
    wdpc,             \* wdpc[t]: position of the watchdog of task t
    waitpc,           \* position of the goroutine calling Wait
    waitRet,          \* the value Wait returned
    panicked,         \* the runtime has panicked (send on closed channel)
    \* history
    runLog,           \* tasks in the order their execution began
    completed,        \* tasks whose body has returned
    dropped,          \* calls that read closed = 1 and returned
    discarded,        \* tasks a worker dequeued and skipped
    returned,         \* calls that have returned to their caller
    latchLog,         \* successful writes to errChan: <<writer, value>>
    lateCalls         \* calls that overlapped with or followed the call of Wait

vars == <<maxWorkersCount, timeout, queue, chanClosed, errChan, closed,
          started, launches, wg, loopI, nTasks, kind, fn, owner, cpc, ctask,
          wpc, wtask, wdpc, waitpc, waitRet, panicked, runLog, completed,
          dropped, discarded, returned, latchLog, lateCalls>>

poolVars == <<maxWorkersCount, timeout>>
onceVars == <<started, launches>>
callVars == <<nTasks, kind, fn, owner, cpc, ctask>>
histVars == <<runLog, completed, dropped, discarded, returned, latchLog,
              lateCalls>>

\* ---- New, SetTimeout ----------------------------------------------------
Clamp(max) == IF max < 1 THEN 1 ELSE max

Init ==
    /\ \E max \in 0..MaxArg : maxWorkersCount = Clamp(max)
    /\ timeout \in {0, 1}
    /\ queue = <<>>
    /\ chanClosed = FALSE
    /\ errChan = <<>>
    /\ closed = 0
    /\ started = FALSE
    /\ launches = 0
    /\ wg = 0
    /\ loopI = -1
    /\ nTasks = 0
    /\ kind = [t \in Tasks |-> "none"]
    /\ fn = [t \in Tasks |-> "nilfn"]
    /\ owner = [t \in Tasks |-> 0]
    /\ cpc = [c \in Callers |-> "idle"]
    /\ ctask = [c \in Callers |-> 0]
    /\ wpc = [w \in Workers |-> "none"]
    /\ wtask = [w \in Workers |-> 0]
    /\ wdpc = [t \in Tasks |-> "none"]
    /\ waitpc = "idle"
    /\ waitRet = NoErr
    /\ panicked = FALSE
    /\ runLog = <<>>
    /\ completed = {}
    /\ dropped = {}
    /\ discarded = {}
    /\ returned = {}
    /\ latchLog = <<>>
    /\ lateCalls = {}

\* ---- helpers ------------------------------------------------------------
\* Each operator is preceded by the variant a slip in the code would give.

\* atomic.LoadInt32(&p.closed) == 1        (variant: the check is missing)
IsClosedNever == FALSE
IsClosed == closed = 1

\* a send on make(chan TaskHandler, max) proceeds while the buffer has room
\* (variant: capacity max + 1)
CanSendOneMore(q) == Len(q) <= maxWorkersCount
CanSend(q) == Len(q) < maxWorkersCount

\* channels are FIFO
Enqueue(q, t) == Append(q, t)

\* doneChan is closed by the wrapper after task() has returned
\* (variant: also when the wrapper is skipped)
DoneSignalledEarly(t) == t \in completed \/ t \in discarded
DoneSignalled(t) == t \in completed

\* sync.Once runs its function on the first call only
\* (variant: a plain call)
OnceFiresAlways == TRUE
OnceFires == ~started

\* ---- Do, DoWait ---------------------------------------------------------
\* Entry of Do / DoWait: p.start.Do(...) runs the launch at most once.
\* Do may be given a nil TaskHandler (the worker skips it); DoWait is given
\* a handler that can be called, since its wrapper calls task().
Submit(c, ks, fs) ==
    /\ ~panicked
    /\ cpc[c] = "idle"
    \* callers are interchangeable: they are numbered by their first call
    /\ \A d \in Callers : d < c => ctask[d] # 0
    /\ \E k \in ks, f \in fs :
         /\ k = "DoWait" => f # "nilfn"
         /\ kind' = [kind EXCEPT ![nTasks + 1] = k]
         /\ fn' = [fn EXCEPT ![nTasks + 1] = f]
    /\ nTasks' = nTasks + 1
    /\ owner' = [owner EXCEPT ![nTasks + 1] = c]
    /\ ctask' = [ctask EXCEPT ![c] = nTasks + 1]
    /\ cpc' = [cpc EXCEPT ![c] = "check"]
    /\ IF OnceFires
         THEN /\ started' = TRUE
              /\ launches' = launches + 1
              /\ wg' = wg + maxWorkersCount
              /\ loopI' = 0
         ELSE UNCHANGED <<started, launches, wg, loopI>>
    /\ lateCalls' = IF waitpc # "idle" THEN lateCalls \cup {nTasks + 1}
                                        ELSE lateCalls
    /\ UNCHANGED <<poolVars, queue, chanClosed, errChan, closed, wpc, wtask,
                   wdpc, waitpc, waitRet, panicked, runLog, completed,
                   dropped, discarded, returned, latchLog>>

\* a Do or DoWait call with any handler
CallBegin(c) ==
    /\ nTasks < MaxTasks
    /\ Submit(c, Kinds, Fns)

\* if atomic.LoadInt32(&p.closed) == 1 { return }
CallCheck(c) ==
    /\ ~panicked
    /\ cpc[c] = "check"
    /\ IF IsClosed
         THEN /\ cpc' = [cpc EXCEPT ![c] = "idle"]
              /\ dropped' = dropped \cup {ctask[c]}
              /\ returned' = returned \cup {ctask[c]}
         ELSE /\ cpc' = [cpc EXCEPT ![c] = "send"]
              /\ UNCHANGED <<dropped, returned>>
    /\ UNCHANGED <<poolVars, queue, chanClosed, errChan, closed, onceVars, wg,
                   loopI, nTasks, kind, fn, owner, ctask, wpc, wtask, wdpc,
                   waitpc, waitRet, panicked, runLog, completed, discarded,
                   latchLog, lateCalls>>

\* p.task <- fn: blocks while the buffer is full.
CallSend(c) ==
    /\ ~panicked
    /\ cpc[c] = "send"
    /\ ~chanClosed
    /\ CanSend(queue)
    /\ queue' = Enqueue(queue, ctask[c])
    /\ IF kind[ctask[c]] = "Do"
         THEN /\ cpc' = [cpc EXCEPT ![c] = "idle"]
              /\ returned' = returned \cup {ctask[c]}
         ELSE /\ cpc' = [cpc EXCEPT ![c] = "await"]
              /\ UNCHANGED returned
    /\ UNCHANGED <<poolVars, chanClosed, errChan, closed, onceVars, wg, loopI,
                   nTasks, kind, fn, owner, ctask, wpc, wtask, wdpc,
                   waitpc, waitRet, panicked, runLog, completed, dropped,
                   discarded, latchLog, lateCalls>>

\* p.task <- fn on a closed channel panics.
CallSendPanic(c) ==
    /\ ~panicked
    /\ cpc[c] = "send"
    /\ chanClosed
    /\ panicked' = TRUE
    /\ UNCHANGED <<poolVars, queue, chanClosed, errChan, closed, onceVars, wg,
                   loopI, callVars, wpc, wtask, wdpc, waitpc, waitRet,
                   histVars>>

\* <-doneChan
CallAwait(c) ==
    /\ ~panicked
    /\ cpc[c] = "await"
    /\ DoneSignalled(ctask[c])
    /\ cpc' = [cpc EXCEPT ![c] = "idle"]
    /\ returned' = returned \cup {ctask[c]}
    /\ UNCHANGED <<poolVars, queue, chanClosed, errChan, closed, onceVars, wg,
                   loopI, nTasks, kind, fn, owner, ctask, wpc, wtask, wdpc,
                   waitpc, waitRet, panicked, runLog, completed, dropped,
                   discarded, latchLog, lateCalls>>

\* ---- loop ---------------------------------------------------------------
\* the condition of the for loop          (variant: one worker too many)
LoopCondOneMore(i) == i <= maxWorkersCount
LoopCond(i) == i < maxWorkersCount

\* for i := 0; i < p.maxWorkersCount; i++ { go func() {...}() }
LoopSpawn ==
    /\ ~panicked
    /\ loopI >= 0
    /\ LoopCond(loopI)
    /\ wpc' = [wpc EXCEPT ![loopI + 1] = "idle"]
    /\ loopI' = loopI + 1
    /\ UNCHANGED <<poolVars, queue, chanClosed, errChan, closed, onceVars, wg,
                   callVars, wtask, wdpc, waitpc, waitRet, panicked,
                   histVars>>

\* ---- worker -------------------------------------------------------------
\* a receive removes the oldest buffered value
\* (variant: the value is read but stays buffered)
DequeuePeek(q) == q
Dequeue(q) == Tail(q)

\* for wt := range p.task: receive the oldest buffered task.
WorkerRecv(w) ==
    /\ ~panicked
    /\ wpc[w] = "idle"
    /\ queue # <<>>
    /\ wtask' = [wtask EXCEPT ![w] = Head(queue)]
    /\ queue' = Dequeue(queue)
    /\ wpc' = [wpc EXCEPT ![w] = "dispatched"]
    /\ UNCHANGED <<poolVars, chanClosed, errChan, closed, onceVars, wg, loopI,
                   callVars, wdpc, waitpc, waitRet, panicked, histVars>>

\* range ends when p.task is closed and drained
\* (variant: a worker that leaves as soon as the channel is closed)
RangeEndsUndrained == chanClosed
RangeEnds == queue = <<>> /\ chanClosed

\* the worker leaves its loop; defer p.wg.Done()
WorkerExit(w) ==
    /\ ~panicked
    /\ wpc[w] = "idle"
    /\ RangeEnds
    /\ wpc' = [wpc EXCEPT ![w] = "terminated"]
    /\ wg' = wg - 1
    /\ UNCHANGED <<poolVars, queue, chanClosed, errChan, closed, onceVars,
                   loopI, callVars, wtask, wdpc, waitpc, waitRet, panicked,
                   histVars>>

\* the value a worker offers to the error slot after wt() returned
ErrOf(t) == IF fn[t] = "err" THEN TaskErr(t) ELSE NoErr

\* wt == nil || atomic.LoadInt32(&p.closed) == 1
\* (variant: only the nil test)
SkipsNilOnly(t) == fn[t] = "nilfn"
Skips(t) == fn[t] = "nilfn" \/ IsClosed

\* continue: the worker goes back to the range
\* (variant: return, the worker leaves its loop)
AfterSkipReturn == "terminated"
AfterSkip == "idle"

\* if wt == nil || closed == 1 { continue }; otherwise the watchdog is
\* started when timeout > 0 and wt() is called.
WorkerCheck(w) ==
    /\ ~panicked
    /\ wpc[w] = "dispatched"
    /\ IF Skips(wtask[w])
         THEN /\ wpc' = [wpc EXCEPT ![w] = AfterSkip]
              /\ discarded' = discarded \cup {wtask[w]}
              /\ UNCHANGED <<runLog, wdpc>>
         ELSE /\ wpc' = [wpc EXCEPT ![w] = "running"]
              /\ runLog' = Append(runLog, wtask[w])
              /\ wdpc' = IF timeout > 0
                           THEN [wdpc EXCEPT ![wtask[w]] = "armed"]
                           ELSE wdpc
              /\ UNCHANGED discarded
    /\ UNCHANGED <<poolVars, queue, chanClosed, errChan, closed, onceVars, wg,
                   loopI, callVars, wtask, waitpc, waitRet, panicked,
                   completed, dropped, returned, latchLog,
                   lateCalls>>

\* if err != nil { select { case p.errChan <- err: ...
\* (variant: closed is stored without the send)
AfterReturnStore(e) == IF e # NoErr THEN "store" ELSE "idle"
AfterReturn(e) == IF e # NoErr THEN "latch" ELSE "idle"

\* err := wt() returns (for DoWait: task() returns and close(doneChan));
\* close(closed)
WorkerTaskReturn(w) ==
    /\ ~panicked
    /\ wpc[w] = "running"
    /\ completed' = completed \cup {wtask[w]}
    /\ wpc' = [wpc EXCEPT ![w] = AfterReturn(ErrOf(wtask[w]))]
    /\ UNCHANGED <<poolVars, queue, chanClosed, errChan, closed, onceVars, wg,
                   loopI, callVars, wtask, wdpc, waitpc, waitRet, panicked,
                   runLog, dropped, discarded, returned, latchLog, lateCalls>>

\* select { case p.errChan <- err: ... default: }
WorkerLatch(w) ==
    /\ ~panicked
    /\ wpc[w] = "latch"
    /\ IF errChan = <<>>
         THEN /\ errChan' = <<ErrOf(wtask[w])>>
              /\ latchLog' = Append(latchLog, <<"worker", ErrOf(wtask[w])>>)
              /\ wpc' = [wpc EXCEPT ![w] = "store"]
         ELSE /\ wpc' = [wpc EXCEPT ![w] = "idle"]
              /\ UNCHANGED <<errChan, latchLog>>
    /\ UNCHANGED <<poolVars, queue, chanClosed, closed, onceVars, wg, loopI,
                   callVars, wtask, wdpc, waitpc, waitRet, panicked,
                   runLog, completed, dropped, discarded, returned, lateCalls>>

\* mylog.Error(err); atomic.StoreInt32(&p.closed, 1)
WorkerStore(w) ==
    /\ ~panicked
    /\ wpc[w] = "store"
    /\ closed' = 1
    /\ wpc' = [wpc EXCEPT ![w] = "idle"]
    /\ UNCHANGED <<poolVars, queue, chanClosed, errChan, onceVars, wg, loopI,
                   callVars, wtask, wdpc, waitpc, waitRet, panicked,
                   histVars>>

\* ---- watchdog -----------------------------------------------------------
\* The context's timer expires: ct.Done() becomes ready.  cancel() is only
\* called in the timeout branch, so the timer stays armed after the task
\* has returned.  "fired": it expired while the task was still running;
\* "firedLate": it expired after the task had returned.
TimerFire(t) ==
    /\ ~panicked
    /\ wdpc[t] = "armed"
    /\ wdpc' = [wdpc EXCEPT ![t] = IF t \in completed
                                     THEN "firedLate" ELSE "fired"]
    /\ UNCHANGED <<poolVars, queue, chanClosed, errChan, closed, started,
                   launches, wg, loopI, callVars, wpc, wtask, waitpc,
                   waitRet, panicked, runLog, completed, dropped,
                   discarded, returned, latchLog, lateCalls>>

\* select { case <-ct.Done(): ...  case <-closed: }
\* With both channels ready the runtime picks either case.
WdSelect(t) ==
    /\ ~panicked
    /\ \/ /\ wdpc[t] \in {"fired", "firedLate"}
          /\ wdpc' = [wdpc EXCEPT ![t] = "send"]
       \/ /\ wdpc[t] \in {"armed", "fired", "firedLate"}
          /\ t \in completed
          /\ wdpc' = [wdpc EXCEPT ![t] = "done"]
    /\ UNCHANGED <<poolVars, queue, chanClosed, errChan, closed, onceVars, wg,
                   loopI, callVars, wpc, wtask, waitpc, waitRet, panicked,
                   histVars>>

\* p.errChan <- ct.Err(): a blocking send
WdSend(t) ==
    /\ ~panicked
    /\ wdpc[t] = "send"
    /\ errChan = <<>>
    /\ errChan' = <<DeadlineExceeded>>
    /\ latchLog' = Append(latchLog, <<"watchdog", DeadlineExceeded>>)
    /\ wdpc' = [wdpc EXCEPT ![t] = "store"]
    /\ UNCHANGED <<poolVars, queue, chanClosed, closed, onceVars, wg, loopI,
                   callVars, wpc, wtask, waitpc, waitRet, panicked, runLog,
                   completed, dropped, discarded, returned,
                   lateCalls>>

\* mylog.Error(ct.Err()); atomic.StoreInt32(&p.closed, 1); cancel()
WdStore(t) ==
    /\ ~panicked
    /\ wdpc[t] = "store"
    /\ closed' = 1
    /\ wdpc' = [wdpc EXCEPT ![t] = "done"]
    /\ UNCHANGED <<poolVars, queue, chanClosed, errChan, onceVars, wg, loopI,
                   callVars, wpc, wtask, waitpc, waitRet, panicked,
                   histVars>>

\* ---- Wait ---------------------------------------------------------------
\* close(p.task)
WaitBegin ==
    /\ ~panicked
    /\ waitpc = "idle"
    /\ chanClosed' = TRUE
    /\ waitpc' = "join"
    /\ lateCalls' = lateCalls \cup
                      {ctask[c] : c \in {d \in Callers : cpc[d] # "idle"}}
    /\ UNCHANGED <<poolVars, queue, errChan, closed, onceVars, wg, loopI,
                   callVars, wpc, wtask, wdpc, waitRet, panicked, runLog,
                   completed, dropped, discarded, returned, latchLog>>

\* p.wg.Wait()
WaitJoin ==
    /\ ~panicked
    /\ waitpc = "join"
    /\ wg = 0
    /\ waitpc' = "read"
    /\ UNCHANGED <<poolVars, queue, chanClosed, errChan, closed, onceVars, wg,
                   loopI, callVars, wpc, wtask, wdpc, waitRet, panicked,
                   histVars>>

\* select { case err := <-p.errChan: return err; default: return nil }
\* (variant: Wait that never reads the slot)
WaitRecvNil(ch) == NoErr
WaitRecv(ch) == IF ch # <<>> THEN Head(ch) ELSE NoErr

WaitRead ==
    /\ ~panicked
    /\ waitpc = "read"
    /\ waitRet' = WaitRecv(errChan)
    /\ errChan' = <<>>
    /\ waitpc' = "returned"
    /\ UNCHANGED <<poolVars, queue, chanClosed, closed, onceVars, wg, loopI,
                   callVars, wpc, wtask, wdpc, panicked, histVars>>

\* ---- specification ------------------------------------------------------
Next ==
    \/ \E c \in Callers : CallBegin(c)
    \/ \E c \in Callers : CallCheck(c)
    \/ \E c \in Callers : CallSend(c)
    \/ \E c \in Callers : CallSendPanic(c)
    \/ \E c \in Callers : CallAwait(c)
    \/ LoopSpawn
    \/ \E w \in Workers : WorkerRecv(w)
    \/ \E w \in Workers : WorkerExit(w)
    \/ \E w \in Workers : WorkerCheck(w)
    \/ \E w \in Workers : WorkerTaskReturn(w)
    \/ \E w \in Workers : WorkerLatch(w)
    \/ \E w \in Workers : WorkerStore(w)
    \/ \E t \in Tasks : TimerFire(t)
    \/ \E t \in Tasks : WdSelect(t)
    \/ \E t \in Tasks : WdSend(t)
    \/ \E t \in Tasks : WdStore(t)
    \/ WaitBegin
    \/ WaitJoin
    \/ WaitRead

Spec == Init /\ [][Next]_vars

\* Every goroutine that can take a step eventually takes it.  Beginning a
\* call, calling Wait and the expiry of a timer are left to the environment.
Fairness ==
    /\ \A c \in Callers :
         WF_vars(CallCheck(c) \/ CallSend(c) \/ CallAwait(c))
    /\ WF_vars(LoopSpawn)
    /\ \A w \in Workers :
         WF_vars(WorkerRecv(w) \/ WorkerExit(w) \/ WorkerCheck(w)
                 \/ WorkerTaskReturn(w) \/ WorkerLatch(w) \/ WorkerStore(w))
    /\ \A t \in Tasks : WF_vars(WdSelect(t) \/ WdSend(t) \/ WdStore(t))
    /\ WF_vars(WaitJoin \/ WaitRead)

\* The use the documentation asks for: Wait is called once, when no call of
\* Do or DoWait is in progress, and no call is made afterwards.
OrderlyCallBegin(c) == waitpc = "idle" /\ CallBegin(c)

OrderlyWaitBegin == (\A c \in Callers : cpc[c] = "idle") /\ WaitBegin

OrderlyNext ==
    \/ \E c \in Callers : OrderlyCallBegin(c)
    \/ \E c \in Callers : CallCheck(c)
    \/ \E c \in Callers : CallSend(c)
    \/ \E c \in Callers : CallAwait(c)
    \/ LoopSpawn
    \/ \E w \in Workers : WorkerRecv(w)
    \/ \E w \in Workers : WorkerExit(w)
    \/ \E w \in Workers : WorkerCheck(w)
    \/ \E w \in Workers : WorkerTaskReturn(w)
    \/ \E w \in Workers : WorkerLatch(w)
    \/ \E w \in Workers : WorkerStore(w)
    \/ \E t \in Tasks : TimerFire(t)
    \/ \E t \in Tasks : WdSelect(t)
    \/ \E t \in Tasks : WdSend(t)
    \/ \E t \in Tasks : WdStore(t)
    \/ OrderlyWaitBegin
    \/ WaitJoin
    \/ WaitRead

FairSpec == Init /\ [][OrderlyNext]_vars /\ Fairness

\* ---- a pool with one worker ---------------------------------------------
\* New(1) (or New(0)), orderly use, calls of Do only, and one call more
\* than MaxTasks: with a queue of capacity 1 a third call can find the
\* queue full after closed has become 1.
SerialInit == Init /\ maxWorkersCount = 1

SerialCallBegin(c) ==
    /\ waitpc = "idle"
    /\ nTasks < MaxTasksSerial
    /\ Submit(c, {"Do"}, Fns)

SerialNext ==
    \/ \E c \in Callers : SerialCallBegin(c)
    \/ \E c \in Callers : CallCheck(c)
    \/ \E c \in Callers : CallSend(c)
    \/ LoopSpawn
    \/ \E w \in Workers : WorkerRecv(w)
    \/ \E w \in Workers : WorkerExit(w)
    \/ \E w \in Workers : WorkerCheck(w)
    \/ \E w \in Workers : WorkerTaskReturn(w)
    \/ \E w \in Workers : WorkerLatch(w)
    \/ \E w \in Workers : WorkerStore(w)
    \/ \E t \in Tasks : TimerFire(t)
    \/ \E t \in Tasks : WdSelect(t)
    \/ \E t \in Tasks : WdSend(t)
    \/ \E t \in Tasks : WdStore(t)
    \/ OrderlyWaitBegin
    \/ WaitJoin
    \/ WaitRead

SerialSpec == SerialInit /\ [][SerialNext]_vars /\ Fairness

\* ---- derived ------------------------------------------------------------
Called == 1..nTasks
Range(q) == {q[i] : i \in 1..Len(q)}
LiveWorkers == {w \in Workers : wpc[w] \notin {"none", "terminated"}}
EverWorkers == {w \in Workers : wpc[w] # "none"}
\* Wait was called after every submission had returned, and none came later
lateCall == lateCalls # {}
WaitAfterCalls == waitpc # "idle" /\ ~lateCall

\* ---- C1 -----------------------------------------------------------------
OnlyError(t) ==
    /\ t \in Called
    /\ fn[t] = "err"
    /\ \A u \in Called \ {t} : fn[u] = "ok"

\* C1: with no timeout, when every task was submitted by Do before the
\* single Wait, exactly one task returns an error and the others return
\* nil, Wait returns exactly that task's error.
C1_WaitReturnsTheError ==
    \A t \in Tasks :
        ( /\ waitpc = "returned"
          /\ WaitAfterCalls
          /\ timeout = 0
          /\ \A u \in Called : kind[u] = "Do"
          /\ OnlyError(t) )
        => waitRet = TaskErr(t)

C1_Witness ==
    /\ waitpc = "returned"
    /\ WaitAfterCalls
    /\ timeout = 0
    /\ maxWorkersCount = 2
    /\ nTasks = MaxTasks
    /\ \A u \in Called : kind[u] = "Do"
    /\ OnlyError(nTasks)
    /\ waitRet = TaskErr(nTasks)

\* ---- C2 -----------------------------------------------------------------
FirstLatched == IF latchLog = <<>> THEN NoErr ELSE latchLog[1][2]

\* C2: Wait returns the error of the first write that reached the error
\* slot, and nil only if no task error or timeout was ever latched.
C2_WaitReturnsFirstLatched ==
    (waitpc = "returned" /\ WaitAfterCalls) => waitRet = FirstLatched

\* ---- C3 -----------------------------------------------------------------
\* C3 as stated: whenever a DoWait call has returned, its task has run to
\* completion, whatever the closed flag was at the time of the call.
C3_DoWaitReturnsAfterTask ==
    \A t \in returned : kind[t] = "DoWait" => t \in completed

\* C3 as amended: whenever a DoWait call has returned, either its task has
\* run to completion, or the call read closed = 1 and its task was never run.
C3_DoWaitReturnsAfterTaskOrDrop ==
    \A t \in returned :
        kind[t] = "DoWait" =>
            \/ t \in completed /\ t \notin dropped
            \/ t \in dropped /\ t \notin Range(runLog)

C3_Witness ==
    \E t \in returned :
        /\ kind[t] = "DoWait"
        /\ t \in completed
        /\ closed = 1

\* ---- C4 -----------------------------------------------------------------
\* C4: every DoWait call eventually returns (task bodies terminate, the
\* goroutines are scheduled fairly, Wait is not called while it is pending).
C4_DoWaitReturns ==
    \A c \in Callers :
        (cpc[c] # "idle" /\ kind[ctask[c]] = "DoWait") ~> (cpc[c] = "idle")

\* ---- C5 -----------------------------------------------------------------
\* C5: when the timer of a task expired before the task returned and no
\* error was latched earlier, the task's own return value never reaches the
\* error slot and Wait returns the deadline-exceeded error.
C5_TimeoutSurfaces ==
    \A t \in Tasks :
        wdpc[t] = "fired" =>
            /\ latchLog # <<>> => latchLog[1] # <<"worker", TaskErr(t)>>
            /\ (waitpc = "returned" /\ WaitAfterCalls /\ latchLog = <<>>)
                   => waitRet = DeadlineExceeded

\* ---- C6 -----------------------------------------------------------------
OneCallerAllSucceed ==
    /\ \A t, u \in Called : owner[t] = owner[u]
    /\ \A t \in Called : kind[t] = "Do" /\ fn[t] = "ok"

\* C6: with maxWorkers = 1, tasks that one caller submits by Do and that all
\* return nil start in submission order, each after the one before it has
\* finished, and after Wait has returned nil all of them have been executed.
C6_SingleWorkerFifo ==
    (maxWorkersCount = 1 /\ OneCallerAllSucceed) =>
        /\ \A i \in 1..Len(runLog) : runLog[i] = i
        /\ \A i \in 1..(Len(runLog) - 1) : runLog[i] \in completed
        /\ (waitpc = "returned" /\ WaitAfterCalls /\ waitRet = NoErr)
               => (Len(runLog) = nTasks /\ completed = Called)

C6_Witness ==
    /\ maxWorkersCount = 1
    /\ OneCallerAllSucceed
    /\ nTasks = MaxTasks
    /\ waitpc = "returned"
    /\ WaitAfterCalls
    /\ waitRet = NoErr
    /\ Len(runLog) = nTasks
    /\ completed = Called

\* ---- C7 -----------------------------------------------------------------
RunningWorkers == {w \in Workers : wpc[w] = "running"}

\* C7: the worker set is launched once: no worker exists before the first
\* submission, never more than maxWorkers workers have been started, at
\* most maxWorkers tasks are running, and once a submission has been made
\* exactly maxWorkers workers are eventually started.
C7_WorkersLaunchedOnce ==
    /\ [](/\ launches <= 1
          /\ (nTasks = 0 => EverWorkers = {})
          /\ Cardinality(EverWorkers) <= maxWorkersCount
          /\ Cardinality(RunningWorkers) <= maxWorkersCount)
    /\ (nTasks > 0 ~> EverWorkers = 1..maxWorkersCount)

\* two calls are in progress at once and the whole worker set is up
C7_Witness ==
    /\ \A c \in Callers : cpc[c] # "idle"
    /\ launches = 1
    /\ maxWorkersCount = 2
    /\ EverWorkers = 1..maxWorkersCount
    /\ Cardinality(RunningWorkers) = 2

\* ---- C8 -----------------------------------------------------------------
\* C8: the queue never holds more than maxWorkers tasks (maxWorkers >= 1),
\* and a call that finds the queue full does not enqueue in that step.
C8_QueueBounded ==
    /\ [](maxWorkersCount >= 1 /\ Len(queue) <= maxWorkersCount)
    /\ [][\A c \in Callers :
            (cpc[c] = "send" /\ Len(queue) = maxWorkersCount)
                => (cpc'[c] = "send" /\ ctask[c] \notin Range(queue'))]_vars

\* a call is blocked on the full queue
C8_Witness ==
    \E c \in Callers :
        /\ cpc[c] = "send"
        /\ ~chanClosed
        /\ Len(queue) = maxWorkersCount

\* ---- C9 -----------------------------------------------------------------
\* C9: a call of Do or DoWait that reads closed = 1 returns in that step
\* and leaves the queue and the error slot as they were; its task is never
\* enqueued, dequeued or executed.
C9_ClosedCallIsNoOp ==
    /\ [](\A t \in dropped :
            /\ t \in returned
            /\ t \notin Range(queue)
            /\ t \notin Range(runLog)
            /\ t \notin discarded
            /\ t \notin completed
            /\ \A w \in Workers : wtask[w] # t)
    /\ [][\A c \in Callers :
            (cpc[c] = "check" /\ closed = 1 /\ cpc'[c] # "check")
                => /\ cpc'[c] = "idle"
                   /\ ctask[c] \in dropped'
                   /\ queue' = queue
                   /\ errChan' = errChan]_vars

\* a DoWait call has read closed = 1 and returned
C9_Witness ==
    \E t \in dropped : kind[t] = "DoWait" /\ t \in returned /\ closed = 1

\* ---- C10 ----------------------------------------------------------------
AllWorkersGone ==
    /\ LiveWorkers = {}
    /\ started => \A w \in 1..maxWorkersCount : wpc[w] = "terminated"

\* C10: a single Wait called after all submissions have returned eventually
\* returns, and when it has returned every worker has terminated and the
\* queue is empty.
C10_WaitReturnsDrained ==
    /\ [](waitpc = "returned" /\ WaitAfterCalls
            => queue = <<>> /\ AllWorkersGone)
    /\ (WaitAfterCalls ~> (waitpc = "returned" \/ lateCall))

\* Wait has returned although a watchdog is still pending
C10_Witness ==
    /\ waitpc = "returned"
    /\ WaitAfterCalls
    /\ started
    /\ queue = <<>>
    /\ AllWorkersGone
    /\ \E t \in Tasks : wdpc[t] \in {"armed", "fired", "firedLate", "send"}

\* ---- IsDone -------------------------------------------------------------
\* IsDone on a pool made by New: return len(p.task) == 0
\* (variant: also requires that no worker is running a task)
IsDoneIdle == Len(queue) = 0 /\ \A w \in Workers : wpc[w] # "running"
IsDone == Len(queue) = 0

\* calls whose send on p.task has happened
Enqueued ==
    {t \in Called : /\ t \notin dropped
                    /\ \/ t \in returned
                       \/ cpc[owner[t]] = "await" /\ ctask[owner[t]] = t}

\* tasks a worker has received from p.task
Dequeued ==
    {wtask[w] : w \in {v \in Workers : wpc[v] = "dispatched"}}
        \cup Range(runLog) \cup discarded

\* C11: IsDone is true exactly when no sent task is still waiting to be
\* received by a worker, whatever the workers are doing: it is true before
\* any call, and false while maxWorkersCount sent tasks are all buffered.
C11_IsDoneIffNothingBuffered ==
    /\ IsDone <=> (Enqueued \ Dequeued = {})
    /\ nTasks = 0 => IsDone
    /\ Cardinality(Enqueued \ Dequeued) = maxWorkersCount => ~IsDone

\* IsDone answers true while a worker is running a task and another task
\* has already completed.
C11_Witness ==
    /\ IsDone
    /\ \E w \in Workers : wpc[w] = "running" /\ wtask[w] \notin completed
    /\ completed # {}

\* ---- the error slot ------------------------------------------------------
\* C12: over the whole life of the pool, also after Wait has taken the
\* value out of p.errChan, at most one send to p.errChan succeeds.
C12_AtMostOneLatch == Len(latchLog) <= 1

\* C13: a watchdog that has taken the timer branch while p.errChan is
\* occupied does not stay at its send: it gives its error up and ends.
C13_WatchdogNeverBlocked ==
    \A t \in Tasks :
        (wdpc[t] = "send" /\ errChan # <<>>) ~> (wdpc[t] = "done")

\* C14: once the body of a task has returned, a watchdog of that task
\* that has not yet acted on the timer has no effect: whenever it next
\* moves it ends, and never goes on to send to p.errChan or store closed.
C14_LateWatchdogHasNoEffect ==
    [][\A t \in Tasks :
          (t \in completed /\ wdpc[t] \in {"armed", "fired", "firedLate"})
              => wdpc'[t] \in {"armed", "fired", "firedLate", "done"}]_vars

\* ---- closed and the tasks already handed to a worker ---------------------
\* C15 (as stated): a task that a worker has received from p.task while
\* closed was still 0 is executed and runs to completion, even if closed
\* becomes 1 before the worker calls it.
C15_DispatchedTaskRuns ==
    \A t \in Tasks :
        (\E w \in Workers : /\ wpc[w] = "dispatched"
                            /\ wtask[w] = t
                            /\ fn[t] # "nilfn"
                            /\ closed = 0)
            ~> (t \in completed)

\* C15 (amended): a task whose worker has read closed as 0 at line 78 runs
\* to completion whatever happens to closed afterwards; a worker that makes
\* that read after closed became 1 never starts the task, also when it had
\* received the task before.
C15_StartedTaskRuns ==
    /\ [][\A w \in Workers :
             (wpc[w] = "running" /\ wpc'[w] # "running")
                 => (wtask[w] \in completed' /\ wtask'[w] = wtask[w])]_vars
    /\ [][\A w \in Workers :
             (wpc[w] = "dispatched" /\ wpc'[w] = "running") => closed = 0]_vars
    /\ []<>(Range(runLog) \subseteq completed)

\* a worker is inside a task it started before closed became 1
C15_Witness ==
    \E w \in Workers : /\ wpc[w] = "running"
                       /\ wtask[w] \notin completed
                       /\ closed = 1

\* C16: a task whose worker finds closed = 1 is discarded: it is never
\* executed, never put back into p.task and never writes p.errChan; the
\* worker goes back to receiving and leaves only when p.task is closed and
\* empty, so once Wait has closed p.task the queue is eventually empty.
C16_ClosedDequeueDiscards ==
    /\ [](\A t \in discarded :
              /\ t \notin Range(runLog)
              /\ t \notin completed
              /\ t \notin Range(queue)
              /\ wdpc[t] = "none"
              /\ \A i \in 1..Len(latchLog) :
                     latchLog[i] # <<"worker", TaskErr(t)>>)
    /\ [][\A w \in Workers :
             (wpc[w] = "dispatched" /\ closed = 1 /\ wpc'[w] # "dispatched")
                 => /\ wpc'[w] = "idle"
                    /\ wtask[w] \in discarded'
                    /\ queue' = queue
                    /\ errChan' = errChan]_vars
    /\ [][\A w \in Workers :
             (wpc[w] # "terminated" /\ wpc'[w] = "terminated")
                 => (wpc[w] = "idle" /\ queue = <<>> /\ chanClosed)]_vars
    /\ chanClosed ~> (queue = <<>>)

\* Wait has returned after a task with a callable handler was discarded
\* and the worker that discarded it went on to the end of the queue.
C16_Witness ==
    /\ waitpc = "returned"
    /\ queue = <<>>
    /\ \E t \in discarded : fn[t] # "nilfn"

\* ---- how often a task runs ----------------------------------------------
\* the number of places of sequence s that hold t
Count(s, t) == Cardinality({i \in 1..Len(s) : s[i] = t})

\* the workers that hold task t between receiving it and going back to
\* the range
Holders(t) ==
    {w \in Workers : wtask[w] = t /\
                     wpc[w] \in {"dispatched", "running", "latch", "store"}}

\* the call of t is still before its send on p.task
InCall(t) == cpc[owner[t]] \in {"check", "send"} /\ ctask[owner[t]] = t

\* C17: a task is executed at most once and held by at most one worker;
\* a call that has been made is in exactly one place: still before its
\* send, dropped by the closed check of its call, buffered in p.task,
\* received and not yet checked, discarded by a worker, or executed.
C17_AtMostOnce ==
    \A t \in Called :
        /\ Count(runLog, t) <= 1
        /\ Count(queue, t) <= 1
        /\ Cardinality(Holders(t)) <= 1
        /\ t \in completed => Count(runLog, t) = 1
        /\ Cardinality({x \in {"call", "dropped", "queue", "dispatched",
                               "discarded", "run"} :
               \/ x = "call" /\ InCall(t)
               \/ x = "dropped" /\ t \in dropped
               \/ x = "queue" /\ Count(queue, t) > 0
               \/ x = "dispatched" /\ \E w \in Holders(t) :
                                          wpc[w] = "dispatched"
               \/ x = "discarded" /\ t \in discarded
               \/ x = "run" /\ Count(runLog, t) > 0}) = 1

\* Wait has returned in a run with two workers in which one task was
\* executed and another was not.
C17_Witness ==
    /\ waitpc = "returned"
    /\ maxWorkersCount > 1
    /\ Len(runLog) > 0
    /\ (dropped \cup discarded) # {}

\* ---- what a nil result of Wait means ------------------------------------
\* the calls that had returned when Wait was called
ReturnedBeforeWait == Called \ lateCalls

\* C18: when Wait has returned nil, every call with a callable handler that
\* had returned before Wait was called has had its task executed exactly
\* once and to completion, without an error, and none of them was dropped
\* or discarded.
C18_NilMeansAllRan ==
    (waitpc = "returned" /\ waitRet = NoErr) =>
        \A t \in ReturnedBeforeWait :
            fn[t] # "nilfn" =>
                /\ Count(runLog, t) = 1
                /\ t \in completed
                /\ ErrOf(t) = NoErr
                /\ t \notin dropped
                /\ t \notin discarded

\* Wait has returned nil after MaxTasks calls with callable handlers, with
\* a timeout set.
C18_Witness ==
    /\ waitpc = "returned"
    /\ waitRet = NoErr
    /\ timeout > 0
    /\ Cardinality({t \in ReturnedBeforeWait : fn[t] # "nilfn"}) = MaxTasks

\* C19: closed is 1 only after a send to p.errChan has succeeded: a writer
\* is at its store of closed only after its own send succeeded, and no
\* call is dropped and no callable task discarded in a pool that has
\* latched no error.
C19_ClosedImpliesLatched ==
    /\ closed = 1 => latchLog # <<>>
    /\ \A w \in Workers :
           wpc[w] = "store" =>
               \E i \in 1..Len(latchLog) :
                   latchLog[i] = <<"worker", TaskErr(wtask[w])>>
    /\ (\E t \in Tasks : wdpc[t] = "store") =>
           \E i \in 1..Len(latchLog) :
               latchLog[i] = <<"watchdog", DeadlineExceeded>>
    /\ (dropped \cup {t \in discarded : fn[t] # "nilfn"}) # {}
           => latchLog # <<>>

\* closed is 1, a call has been dropped, and Wait has already taken the
\* latched value out of p.errChan.
C19_Witness ==
    /\ closed = 1
    /\ dropped # {}
    /\ errChan = <<>>
    /\ waitpc = "returned"

\* ---- a Do call against a full queue --------------------------------------
\* C20: every Do call that has been entered returns: a caller blocked at
\* p.task <- fn on a full queue gets its place, also after closed has
\* become 1, because the worker keeps receiving.
C20_DoReturns ==
    \A c \in Callers :
        (cpc[c] # "idle" /\ kind[ctask[c]] = "Do") ~> (cpc[c] = "idle")

\* a Do caller is at its send, the queue is full and closed is 1
C20_Witness ==
    \E c \in Callers : /\ cpc[c] = "send"
                       /\ kind[ctask[c]] = "Do"
                       /\ Len(queue) = maxWorkersCount
                       /\ closed = 1

====
